---- MODULE Spec2Model ----
(***************************************************************************)
(* Model of src/src/hci/stream.rs: the HCI event filter, the Frame Reader  *)
(* (ByteStream as a Stream), the Frame Writer (ByteWrite as a Future) and  *)
(* HCIWriter::send_command.                                                *)
(*                                                                         *)
(* A poll of the reader or of the writer is a loop of transport calls.     *)
(* One model step is one transport call together with the code that runs   *)
(* up to the next transport call or to the return of the poll; rpc and wpc *)
(* hold the position inside the running poll.  Nothing else can run while  *)
(* a poll is in progress (the poll holds the only &mut borrow), so every   *)
(* other operation is guarded by rpc = "idle" and by the writer's state.   *)
(*                                                                         *)
(* Bytes are naturals 0..255.  A u32 mask is the set of its set bits       *)
(* (a subset of 0..31), so that bit 31 needs no 32-bit arithmetic.         *)
(***************************************************************************)
EXTENDS Integers, Sequences, FiniteSets, TLC

-----------------------------------------------------------------------------
(* Bounds of the model *)

\* largest value of a byte the transport delivers, so the longest payload
MaxLenByte == 2
\* largest packed command (full_len) that is sent
MaxCmdLen == 10
\* transport calls of one writer after which the transport stops stalling
MaxAttempts == 2
\* frames one reader produces between two clears before the caller stops
MaxFrames == 2
\* largest per-call capacity of the regular transport of SpecK
MaxK == 3

-----------------------------------------------------------------------------
(* Program constants *)

EVENT_HEADER_LEN == 2
FILTER_LEN == 14
PT_Command == 1
PT_ACLData == 2
PT_SCOData == 3
PT_Event == 4
PT_Vendor == 255
\* EventCode::CommandComplete and EventCode::CommandStatus (crate::hci)
CommandComplete == 14
CommandStatus == 15

\* the wire values EventCode::try_from accepts (crate::hci, outside this file)
EventCodeValues == 1 .. 15
IsEventCode(b) == b \in EventCodeValues

PacketTypes == {PT_Command, PT_ACLData, PT_SCOData, PT_Event}

\* Option<T>
None == {}
Some(x) == {x}
Unwrap(o) == CHOOSE x \in o : TRUE

-----------------------------------------------------------------------------
(* Inputs *)

\* the byte values the transport delivers: 0 is no event code, the others
\* are; each of them is also a payload length the model can hold
Bytes == 0 .. MaxLenByte

SeqsUpTo(S, n) == UNION {[1 .. k -> S] : k \in 0 .. n}

\* opcodes of the commands that are sent (Reset, LE Set Advertising Enable)
Opcodes == {3075, 8202}

\* a Command: its opcode, its full_len and whether pack_full succeeds
Cmds == [opcode : Opcodes, len : 1 .. MaxCmdLen, packs : BOOLEAN]

\* Command::pack_full (crate::hci): the bytes of the packed command; the
\* bytes are pairwise distinct so that order and duplication show
Packed(cmd) == [i \in 1 .. cmd.len |-> (cmd.opcode + i) % 256]

\* the event codes, packet types and opcodes a Filter is changed with
FilterEvents == {0, 31, 32, 40, 63}
FilterTypes == PacketTypes
FilterOpcodes == Opcodes \cup {0}

\* errors a transport's set_filter can report
FilterErrors == {"IOError", "HCIError"}

-----------------------------------------------------------------------------
(* Filter *)

DefaultFilter == [type_mask |-> {}, event_mask |-> <<{}, {}>>, opcode |-> 0]

enable_type(f, t) == [f EXCEPT !.type_mask = @ \cup {t}]
get_type(f, t) == t \in f.type_mask

\* faulty variant of enable_event: the word boundary is put after 32
enable_event_BoundaryOff(f, e) ==
    IF e <= 32 THEN [f EXCEPT !.event_mask[1] = @ \cup {e % 32}]
               ELSE [f EXCEPT !.event_mask[2] = @ \cup {e - 32}]

enable_event(f, e) ==
    IF e < 32 THEN [f EXCEPT !.event_mask[1] = @ \cup {e}]
              ELSE [f EXCEPT !.event_mask[2] = @ \cup {e - 32}]
get_event(f, e) ==
    IF e < 32 THEN e \in f.event_mask[1]
              ELSE (e - 32) \in f.event_mask[2]

disable_type(f, t) == [f EXCEPT !.type_mask = @ \ {t}]
disable_event(f, e) ==
    IF e < 32 THEN [f EXCEPT !.event_mask[1] = @ \ {e}]
              ELSE [f EXCEPT !.event_mask[2] = @ \ {e - 32}]

\* u32::to_le_bytes: byte j (0..3) holds bits 8j .. 8j+7, bit 8j lowest
BitVal(m, i) == IF i \in m THEN 1 ELSE 0
ByteOf(m, j) ==
    BitVal(m, 8 * j) + 2 * BitVal(m, 8 * j + 1) + 4 * BitVal(m, 8 * j + 2)
        + 8 * BitVal(m, 8 * j + 3) + 16 * BitVal(m, 8 * j + 4)
        + 32 * BitVal(m, 8 * j + 5) + 64 * BitVal(m, 8 * j + 6)
        + 128 * BitVal(m, 8 * j + 7)
u32_to_le_bytes(m) == <<ByteOf(m, 0), ByteOf(m, 1), ByteOf(m, 2), ByteOf(m, 3)>>

\* u32::from_le_bytes of four bytes
BitsOfByte(b) == {i \in 0 .. 7 : (b \div (2 ^ i)) % 2 = 1}
u32_from_le_bytes(b) ==
    UNION {{8 * (j - 1) + i : i \in BitsOfByte(b[j])} : j \in 1 .. 4}

\* u16::to_le_bytes
u16_to_le_bytes(v) == <<v % 256, v \div 256>>

\* the opcode group fields (upper six bits) Opcode::unpack accepts
OGFValues == {0, 1, 2, 3, 4, 5, 6, 8, 63}

\* Opcode::unpack (crate::hci): the little-endian u16, if its group is known
Opcode_unpack(b) ==
    LET v == b[1] + 256 * b[2]
    IN  IF (v \div 1024) \in OGFValues THEN Some(v) ELSE None

\* faulty variant of pack: the two event words change places
pack_WordsSwapped(f) ==
    u32_to_le_bytes(f.type_mask) \o u32_to_le_bytes(f.event_mask[2])
        \o u32_to_le_bytes(f.event_mask[1]) \o u16_to_le_bytes(f.opcode)

\* Filter::pack
pack(f) ==
    u32_to_le_bytes(f.type_mask) \o u32_to_le_bytes(f.event_mask[1])
        \o u32_to_le_bytes(f.event_mask[2]) \o u16_to_le_bytes(f.opcode)

\* Filter::unpack
unpack(bytes) ==
    IF Len(bytes) # FILTER_LEN THEN None
    ELSE LET op == Opcode_unpack(SubSeq(bytes, 13, 14))
         IN  IF op = None THEN None
             ELSE Some([type_mask |-> u32_from_le_bytes(SubSeq(bytes, 1, 4)),
                        event_mask |-> <<u32_from_le_bytes(SubSeq(bytes, 5, 8)),
                                         u32_from_le_bytes(SubSeq(bytes, 9, 12))>>,
                        opcode |-> Unwrap(op)])

\* faulty variant of CommandFilter: the opcode is left at 0
CommandFilter_NoOpcode(o) ==
    LET f1 == enable_type(DefaultFilter, PT_Command)
        f2 == enable_type(f1, PT_Event)
        f3 == enable_event(f2, CommandStatus)
    IN  enable_event(f3, CommandComplete)

\* faulty variant of CommandFilter: CommandStatus is not enabled
CommandFilter_NoStatus(o) ==
    LET f1 == enable_type(DefaultFilter, PT_Command)
        f2 == enable_type(f1, PT_Event)
        f4 == enable_event(f2, CommandComplete)
    IN  [f4 EXCEPT !.opcode = o]

\* the filter send_command builds for a command with opcode o
CommandFilter(o) ==
    LET f1 == enable_type(DefaultFilter, PT_Command)
        f2 == enable_type(f1, PT_Event)
        f3 == enable_event(f2, CommandStatus)
        f4 == enable_event(f3, CommandComplete)
    IN  [f4 EXCEPT !.opcode = o]

-----------------------------------------------------------------------------
(* State *)

VARIABLES
    pos,          \* ByteStream.pos
    header_buf,   \* ByteStream.header_buf
    parameters,   \* ByteStream.parameters: None or Some(buffer)
    rpc,          \* position inside poll_next: "idle", "hdr" or "pay"
    got,          \* the bytes the transport delivered since new() or clear()
    nframes,      \* the frames poll_next produced since new() or clear()
    w,            \* the live ByteWrite: None or Some
    wpc,          \* position of the writer: "none", "idle", "write", "flush", "done"
    wop,          \* the opcode of the command the live ByteWrite carries
    filter,       \* transport: the filter of the last successful set_filter
    sent,         \* transport: the bytes accepted from the live ByteWrite
    nwrites,      \* transport: poll_write calls of the live ByteWrite
    nflush,       \* transport: poll_flush calls of the live ByteWrite
    flushed,      \* transport: a poll_flush of the live ByteWrite succeeded
    tk,           \* transport: bytes accepted per poll_write (0: any number)
    flt,          \* a Filter value its owner changes, packs and unpacks
    fbytes,       \* the bytes the last operation, a Filter::pack, returned
                  \* or, a Filter::unpack, was given
    funp,         \* what the last operation, a Filter::unpack, returned
    ret,          \* what the last operation returned ("Running": its poll goes on)
    last          \* the last operation, its argument and the transport's answer

rvars == <<pos, header_buf, parameters, rpc, got, nframes>>
wvars == <<w, wpc, wop, sent, nwrites, nflush, flushed>>
fvars == <<flt, fbytes, funp>>
vars == <<pos, header_buf, parameters, rpc, got, nframes, w, wpc, wop, filter,
          sent, nwrites, nflush, flushed, tk, flt, fbytes, funp, ret, last>>

\* values returned
Res(kind) == [kind |-> kind, code |-> 0, payload |-> <<>>]
Frame(c, p) == [kind |-> "Frame", code |-> c, payload |-> p]

\* the last operation: op, for send_command the opcode of its command and
\* whether the command packs, the transport's answer r ("-" if the transport
\* was not called) and the number n of bytes the transport transferred
Op(op, r, n) == [op |-> op, cmd |-> None, r |-> r, n |-> n]

-----------------------------------------------------------------------------
(* Frame Reader: ByteStream *)

\* the reader's fields as one value
Reader(p, h, prm) == [pos |-> p, header_buf |-> h, parameters |-> prm]

\* ByteStream::new
NewReader == Reader(0, <<0, 0>>, None)

\* ByteStream::clear
clear(rd) == Reader(0, <<0, 0>>, None)

\* the outcome of a step of poll_next: the reader, the position in the poll
\* and the value returned (kind "Running" while the poll goes on)
Outcome(rd, pc, res) == [rd |-> rd, pc |-> pc, res |-> res]

\* a read puts the delivered bytes at the start of the slice buf[off..]
CopyInto(buf, off, bytes) ==
    [i \in 1 .. Len(buf) |->
        IF i > off /\ i <= off + Len(bytes) THEN bytes[i - off] ELSE buf[i]]

\* make_buf: a zeroed buffer of len bytes
make_buf(len) == [i \in 1 .. len |-> 0]

\* the frame is returned with the payload buffer taken out of the reader
EmitFrame(rd) ==
    Outcome([rd EXCEPT !.parameters = None], "idle",
            Frame(rd.header_buf[1], Unwrap(rd.parameters)))

\* faulty variant of PayloadLoop: the payload is read at least once
PayloadLoop_OffByOne(rd) ==
    IF rd.pos <= rd.header_buf[2] + EVENT_HEADER_LEN
    THEN Outcome(rd, "pay", Res("Running"))
    ELSE EmitFrame(rd)

\* head of the payload loop: read on while pos < len + 2, else return the frame
PayloadLoop(rd) ==
    IF rd.pos < rd.header_buf[2] + EVENT_HEADER_LEN
    THEN Outcome(rd, "pay", Res("Running"))
    ELSE EmitFrame(rd)

\* faulty variant of EnsureBuffer: the buffer is sized by header byte 0
EnsureBuffer_WrongLength(rd) ==
    IF rd.parameters # None THEN rd
    ELSE [rd EXCEPT !.parameters = Some(make_buf(rd.header_buf[1]))]

\* the payload buffer: the one held, or a new one of header_buf[1] bytes
EnsureBuffer(rd) ==
    IF rd.parameters # None THEN rd
    ELSE [rd EXCEPT !.parameters = Some(make_buf(rd.header_buf[2]))]

\* faulty variant of AfterHeader: a rejected header is thrown away
AfterHeader_ResyncOnBad(rd) ==
    IF ~IsEventCode(rd.header_buf[1])
    THEN Outcome(clear(rd), "idle", Res("BadOpcode"))
    ELSE PayloadLoop(EnsureBuffer(rd))

\* faulty variant of AfterHeader: the buffer is made before the code is checked
AfterHeader_BufferFirst(rd) ==
    IF ~IsEventCode(rd.header_buf[1])
    THEN Outcome(EnsureBuffer(rd), "idle", Res("BadOpcode"))
    ELSE PayloadLoop(EnsureBuffer(rd))

\* after the header loop: the event code is checked, the buffer is made
AfterHeader(rd) ==
    IF ~IsEventCode(rd.header_buf[1])
    THEN Outcome(rd, "idle", Res("BadOpcode"))
    ELSE PayloadLoop(EnsureBuffer(rd))

\* head of the header loop
HeaderLoop(rd) ==
    IF rd.pos < EVENT_HEADER_LEN
    THEN Outcome(rd, "hdr", Res("Running"))
    ELSE AfterHeader(rd)

\* the transport's answers to a poll_read into a slice of n bytes
ReadAnswers(n) ==
    {[r |-> "Ok", bytes |-> b] : b \in SeqsUpTo(Bytes, n)}
        \cup {[r |-> "Err", bytes |-> <<>>], [r |-> "Pending", bytes |-> <<>>]}

\* faulty variant of HeaderRead: every read fills header_buf from its start
HeaderRead_IgnoresPos(rd, a) ==
    IF a.r = "Err" THEN Outcome(rd, "idle", Res("IOError"))
    ELSE IF a.r = "Pending" THEN Outcome(rd, "idle", Res("Pending"))
    ELSE IF Len(a.bytes) = 0 THEN Outcome(rd, "idle", Res("End"))
    ELSE HeaderLoop([rd EXCEPT
            !.header_buf = CopyInto(@, 0, a.bytes),
            !.pos = @ + Len(a.bytes)])

\* one pass of the header loop, the transport answering a
HeaderRead(rd, a) ==
    IF a.r = "Err" THEN Outcome(rd, "idle", Res("IOError"))
    ELSE IF a.r = "Pending" THEN Outcome(rd, "idle", Res("Pending"))
    ELSE IF Len(a.bytes) = 0 THEN Outcome(rd, "idle", Res("End"))
    ELSE HeaderLoop([rd EXCEPT
            !.header_buf = CopyInto(@, rd.pos, a.bytes),
            !.pos = @ + Len(a.bytes)])

\* faulty variant of PayloadRead: a read of 0 bytes is not looked at
PayloadRead_NoEndCheck(rd, a) ==
    IF a.r = "Err" THEN Outcome(rd, "idle", Res("IOError"))
    ELSE IF a.r = "Pending" THEN Outcome(rd, "idle", Res("Pending"))
    ELSE PayloadLoop([rd EXCEPT
            !.parameters = Some(CopyInto(Unwrap(@), rd.pos - EVENT_HEADER_LEN, a.bytes)),
            !.pos = @ + Len(a.bytes)])

\* faulty variant of PayloadRead: a Pending read gives the payload buffer up
PayloadRead_PendingDropsBuffer(rd, a) ==
    IF a.r = "Err" THEN Outcome(rd, "idle", Res("IOError"))
    ELSE IF a.r = "Pending"
    THEN Outcome([rd EXCEPT !.parameters = None], "idle", Res("Pending"))
    ELSE IF Len(a.bytes) = 0 THEN Outcome(rd, "idle", Res("End"))
    ELSE PayloadLoop([rd EXCEPT
            !.parameters = Some(CopyInto(Unwrap(@), rd.pos - EVENT_HEADER_LEN, a.bytes)),
            !.pos = @ + Len(a.bytes)])

\* one pass of the payload loop, the transport answering a
PayloadRead(rd, a) ==
    IF a.r = "Err" THEN Outcome(rd, "idle", Res("IOError"))
    ELSE IF a.r = "Pending" THEN Outcome(rd, "idle", Res("Pending"))
    ELSE IF Len(a.bytes) = 0 THEN Outcome(rd, "idle", Res("End"))
    ELSE PayloadLoop([rd EXCEPT
            !.parameters = Some(CopyInto(Unwrap(@), rd.pos - EVENT_HEADER_LEN, a.bytes)),
            !.pos = @ + Len(a.bytes)])

-----------------------------------------------------------------------------
(* Frame Writer: ByteWrite *)

\* ByteWrite::new: data[..len] holds the bytes (the rest of the fixed array
\* is never read)
NewWriter(bytes) == [data |-> bytes, pos |-> 0, len |-> Len(bytes)]

\* faulty variant of buf: the whole buffer is offered every time
buf_FromStart(wr) == SubSeq(wr.data, 1, wr.len)

\* ByteWrite::buf, the slice a poll_write is given: data[pos..len]
buf(wr) == SubSeq(wr.data, wr.pos + 1, wr.len)

\* head of the write loop: write on while pos < len, else flush
WriteLoop(wr) ==
    IF wr.pos < wr.len
    THEN Outcome(wr, "write", Res("Running"))
    ELSE Outcome(wr, "flush", Res("Running"))

\* faulty variant of WriteStep: one accepted write counts as the whole buffer
WriteStep_AllAtOnce(wr, a) ==
    IF a.r = "Err" THEN Outcome(wr, "done", Res("IOError"))
    ELSE IF a.r = "Pending" THEN Outcome(wr, "idle", Res("Pending"))
    ELSE WriteLoop([wr EXCEPT !.pos = wr.len])

\* faulty variant of WriteStep: a write of 0 bytes is taken as a failure
WriteStep_ZeroFails(wr, a) ==
    IF a.r = "Err" THEN Outcome(wr, "done", Res("IOError"))
    ELSE IF a.r = "Pending" THEN Outcome(wr, "idle", Res("Pending"))
    ELSE IF a.n = 0 THEN Outcome(wr, "done", Res("IOError"))
    ELSE WriteLoop([wr EXCEPT !.pos = @ + a.n])

\* one pass of the write loop, the transport answering a
WriteStep(wr, a) ==
    IF a.r = "Err" THEN Outcome(wr, "done", Res("IOError"))
    ELSE IF a.r = "Pending" THEN Outcome(wr, "idle", Res("Pending"))
    ELSE WriteLoop([wr EXCEPT !.pos = @ + a.n])

\* faulty variant of FlushStep: the result of the flush is not looked at
FlushStep_IgnoresError(wr, a) ==
    IF a.r = "Pending" THEN Outcome(wr, "idle", Res("Pending"))
    ELSE Outcome(wr, "done", Res("Ok"))

\* the flush that ends the poll, the transport answering a
FlushStep(wr, a) ==
    IF a.r = "Pending" THEN Outcome(wr, "idle", Res("Pending"))
    ELSE IF a.r = "Ok" THEN Outcome(wr, "done", Res("Ok"))
    ELSE Outcome(wr, "done", Res("IOError"))

\* the transport's answers to a poll_write of a slice of m bytes: the regular
\* transport (k > 0) takes min(k, m) bytes; any other takes any number, fails
\* or is not ready, and stalls (0 bytes, not ready) only a bounded number of times
WriteAnswers(m, k, calls) ==
    IF k > 0 THEN {[r |-> "Ok", n |-> IF k < m THEN k ELSE m]}
    ELSE {[r |-> "Ok", n |-> n] : n \in 1 .. m}
            \cup {[r |-> "Err", n |-> 0]}
            \cup (IF calls < MaxAttempts
                  THEN {[r |-> "Ok", n |-> 0], [r |-> "Pending", n |-> 0]}
                  ELSE {})

\* the transport's answers to a poll_flush
FlushAnswers(k, calls) ==
    IF k > 0 THEN {[r |-> "Ok", n |-> 0]}
    ELSE {[r |-> "Ok", n |-> 0], [r |-> "Err", n |-> 0]}
            \cup (IF calls < MaxAttempts THEN {[r |-> "Pending", n |-> 0]} ELSE {})

-----------------------------------------------------------------------------
(* HCIWriter::send_command *)

\* the transport's answers to set_filter
FilterAnswers == {"Ok"} \cup FilterErrors

\* faulty variant of send_command: the result of pack_full is dropped
send_command_IgnoresPackError(cmd, fa) ==
    IF fa \in FilterErrors
    THEN [res |-> fa, setf |-> Some(CommandFilter(cmd.opcode)), bytes |-> None]
    ELSE [res |-> "Ok", setf |-> Some(CommandFilter(cmd.opcode)),
          bytes |-> Some(Packed(cmd))]

\* faulty variant of send_command: the result of set_filter is dropped
send_command_IgnoresFilterError(cmd, fa) ==
    IF ~cmd.packs
    THEN [res |-> "CommandError", setf |-> None, bytes |-> None]
    ELSE [res |-> "Ok", setf |-> Some(CommandFilter(cmd.opcode)),
          bytes |-> Some(Packed(cmd))]

\* send_command of cmd, the transport answering fa to set_filter (if called):
\* the value returned, the filter given to set_filter (None: not called) and
\* the bytes given to send_bytes (None: not called)
send_command(cmd, fa) ==
    IF ~cmd.packs
    THEN [res |-> "CommandError", setf |-> None, bytes |-> None]
    ELSE IF fa # "Ok"
    THEN [res |-> fa, setf |-> Some(CommandFilter(cmd.opcode)), bytes |-> None]
    ELSE [res |-> "Ok", setf |-> Some(CommandFilter(cmd.opcode)),
          bytes |-> Some(Packed(cmd))]

\* faulty variant of send_bytes: the reader is not cleared
send_bytes_NoClear(rd, bytes) == [rd |-> rd, wr |-> NewWriter(bytes)]

\* ByteStream::send_bytes: the reader is cleared, the writer is made
send_bytes(rd, bytes) == [rd |-> clear(rd), wr |-> NewWriter(bytes)]

-----------------------------------------------------------------------------
(* Initial states *)

InitCommon ==
    /\ pos = NewReader.pos
    /\ header_buf = NewReader.header_buf
    /\ parameters = NewReader.parameters
    /\ rpc = "idle"
    /\ got = <<>>
    /\ nframes = 0
    /\ w = None
    /\ wpc = "none"
    /\ wop = None
    /\ filter = None
    /\ sent = <<>>
    /\ nwrites = 0
    /\ nflush = 0
    /\ flushed = FALSE
    /\ fbytes = <<>>
    /\ funp = None
    /\ ret = Res("None")
    /\ last = Op("new", "-", 0)

\* any transport
Init == InitCommon /\ tk = 0 /\ flt = DefaultFilter

\* a transport that takes min(k, remaining) bytes per write and never fails
InitK == InitCommon /\ tk \in 1 .. MaxK /\ flt = DefaultFilter

\* Filter values to start from: the default one, and one with bits at the
\* ends of every byte and word, as Filter::unpack returns it
SeedFilters ==
    {DefaultFilter,
     [type_mask |-> {0, 7, 8, 31}, event_mask |-> <<{0, 9, 16, 31}, {7, 24}>>,
      opcode |-> 8202]}

\* a Filter on its own
InitF == InitCommon /\ tk = 0 /\ flt \in SeedFilters

-----------------------------------------------------------------------------
(* Actions *)

CurReader == Reader(pos, header_buf, parameters)

SetReader(rd) ==
    /\ pos' = rd.pos
    /\ header_buf' = rd.header_buf
    /\ parameters' = rd.parameters

\* the step of poll_next with outcome o
ReaderStep(o) ==
    /\ SetReader(o.rd)
    /\ rpc' = o.pc
    /\ ret' = o.res
    /\ nframes' = IF o.res.kind = "Frame" THEN nframes + 1 ELSE nframes

\* the reader and the writer borrow the ByteStream mutably: an operation on
\* the stream starts only when no poll runs and no ByteWrite is alive
StreamFree == rpc = "idle" /\ wpc = "none"

\* read_event is polled: poll_next runs up to its first transport call
PollNext ==
    /\ StreamFree
    /\ nframes < MaxFrames
    /\ ReaderStep(HeaderLoop(CurReader))
    /\ last' = Op("poll_next", "-", 0)
    /\ UNCHANGED <<got, wvars, filter, tk, fvars>>

\* poll_read into header_buf[pos..]
ReadHeader ==
    /\ rpc = "hdr"
    /\ \E a \in ReadAnswers(Len(header_buf) - pos) :
        /\ ReaderStep(HeaderRead(CurReader, a))
        /\ got' = got \o a.bytes
        /\ last' = Op("read", a.r, Len(a.bytes))
    /\ UNCHANGED <<wvars, filter, tk, fvars>>

\* poll_read into buf[pos - 2..]
ReadPayload ==
    /\ rpc = "pay"
    /\ \E a \in ReadAnswers(Len(Unwrap(parameters)) - (pos - EVENT_HEADER_LEN)) :
        /\ ReaderStep(PayloadRead(CurReader, a))
        /\ got' = got \o a.bytes
        /\ last' = Op("read", a.r, Len(a.bytes))
    /\ UNCHANGED <<wvars, filter, tk, fvars>>

\* ByteStream::clear, called by the owner of the stream
Clear ==
    /\ StreamFree
    /\ SetReader(clear(CurReader))
    /\ got' = <<>>
    /\ nframes' = 0
    /\ ret' = Res("Unit")
    /\ last' = Op("clear", "-", 0)
    /\ UNCHANGED <<rpc, wvars, filter, tk, fvars>>

\* send_command of some command
SendCommand ==
    /\ StreamFree
    /\ \E cmd \in Cmds : \E fa \in (IF cmd.packs THEN FilterAnswers ELSE {"-"}) :
        LET o == send_command(cmd, fa) IN
        /\ ret' = Res(o.res)
        /\ filter' = IF o.setf # None /\ fa = "Ok" THEN o.setf ELSE filter
        /\ last' = [Op("send_command", IF o.setf = None THEN "-" ELSE fa, 0)
                        EXCEPT !.cmd = Some([opcode |-> cmd.opcode, packs |-> cmd.packs])]
        /\ IF o.bytes = None
           THEN UNCHANGED <<pos, header_buf, parameters, got, nframes, wvars>>
           ELSE LET sb == send_bytes(CurReader, Unwrap(o.bytes)) IN
                /\ SetReader(sb.rd)
                /\ got' = <<>>
                /\ nframes' = 0
                /\ w' = Some(sb.wr)
                /\ wpc' = "idle"
                /\ wop' = Some(cmd.opcode)
                /\ UNCHANGED <<sent, nwrites, nflush, flushed>>
    /\ UNCHANGED <<rpc, tk, fvars>>

\* the step of ByteWrite::poll with outcome o
WriterStep(o) ==
    /\ w' = Some(o.rd)
    /\ wpc' = o.pc
    /\ ret' = o.res

\* the ByteWrite is polled: poll runs up to its first transport call
PollWrite ==
    /\ wpc = "idle"
    /\ WriterStep(WriteLoop(Unwrap(w)))
    /\ last' = Op("poll", "-", 0)
    /\ UNCHANGED <<rvars, wop, filter, sent, nwrites, nflush, flushed, tk, fvars>>

\* poll_write of data[pos..len], the transport answering a
WriteBy(a) ==
    /\ WriterStep(WriteStep(Unwrap(w), a))
    /\ sent' = sent \o SubSeq(buf(Unwrap(w)), 1, a.n)
    /\ last' = Op("write", a.r, a.n)
    /\ nwrites' = nwrites + 1
    /\ UNCHANGED <<rvars, wop, filter, nflush, flushed, tk, fvars>>

\* poll_write of data[pos..len]
Write ==
    /\ wpc = "write"
    /\ \E a \in WriteAnswers(Len(buf(Unwrap(w))), tk, nwrites) : WriteBy(a)

\* poll_flush, the transport answering a
FlushBy(a) ==
    /\ WriterStep(FlushStep(Unwrap(w), a))
    /\ flushed' = (flushed \/ a.r = "Ok")
    /\ last' = Op("flush", a.r, 0)
    /\ nflush' = nflush + 1
    /\ UNCHANGED <<rvars, wop, filter, sent, nwrites, tk, fvars>>

\* poll_flush
Flush ==
    /\ wpc = "flush"
    /\ \E a \in FlushAnswers(tk, nflush) : FlushBy(a)

\* the answers of a transport that never fails
NoFail(A) == {a \in A : a.r # "Err"}

\* poll_write against a transport that never fails
WriteNoFail ==
    /\ wpc = "write"
    /\ \E a \in NoFail(WriteAnswers(Len(buf(Unwrap(w))), tk, nwrites)) : WriteBy(a)

\* poll_flush against a transport that never fails
FlushNoFail ==
    /\ wpc = "flush"
    /\ \E a \in NoFail(FlushAnswers(tk, nflush)) : FlushBy(a)

\* the ByteWrite is dropped, finished or not: the stream is free again, and
\* the transport's record of the live ByteWrite starts anew
DropWriter ==
    /\ wpc \in {"idle", "done"}
    /\ w' = None
    /\ wpc' = "none"
    /\ wop' = None
    /\ sent' = <<>>
    /\ nwrites' = 0
    /\ nflush' = 0
    /\ flushed' = FALSE
    /\ ret' = Res("Unit")
    /\ last' = Op("drop", "-", 0)
    /\ UNCHANGED <<rvars, filter, tk, fvars>>

Next ==
    \/ PollNext
    \/ ReadHeader
    \/ ReadPayload
    \/ Clear
    \/ SendCommand
    \/ PollWrite
    \/ Write
    \/ Flush
    \/ DropWriter

Spec == Init /\ [][Next]_vars

\* the writer against a transport that never fails and stalls (0 bytes, not
\* ready) only a bounded number of times; the writer is polled again after
\* every Pending and is not dropped
NextL ==
    \/ SendCommand
    \/ PollWrite
    \/ WriteNoFail
    \/ FlushNoFail

SpecL ==
    /\ Init
    /\ [][NextL]_vars
    /\ WF_vars(PollWrite)
    /\ WF_vars(WriteNoFail)
    /\ WF_vars(FlushNoFail)

-----------------------------------------------------------------------------
(* Filter on its own *)

\* what a Filter operation leaves alone
StreamUnchanged == UNCHANGED <<rvars, wvars, filter, tk>>

FilterOp(name, n) ==
    /\ ret' = Res("Unit")
    /\ last' = Op(name, "-", n)
    /\ StreamUnchanged

\* an operation that neither packs nor unpacks
NoBytes == fbytes' = <<>> /\ funp' = None

EnableEvent ==
    \E e \in FilterEvents :
        /\ flt' = enable_event(flt, e)
        /\ FilterOp("enable_event", e)
        /\ NoBytes

DisableEvent ==
    \E e \in FilterEvents :
        /\ flt' = disable_event(flt, e)
        /\ FilterOp("disable_event", e)
        /\ NoBytes

EnableType ==
    \E t \in FilterTypes :
        /\ flt' = enable_type(flt, t)
        /\ FilterOp("enable_type", t)
        /\ NoBytes

DisableType ==
    \E t \in FilterTypes :
        /\ flt' = disable_type(flt, t)
        /\ FilterOp("disable_type", t)
        /\ NoBytes

\* *filter.opcode_mut() = o
SetOpcode ==
    \E o \in FilterOpcodes :
        /\ flt' = [flt EXCEPT !.opcode = o]
        /\ FilterOp("opcode_mut", 0)
        /\ NoBytes

Pack ==
    /\ fbytes' = pack(flt)
    /\ funp' = None
    /\ FilterOp("pack", 0)
    /\ UNCHANGED flt

\* byte strings given to Filter::unpack: the packed Filter, the same one byte
\* short, one byte long, and with an opcode of an unknown group
UnpackInputs(f) ==
    {pack(f), SubSeq(pack(f), 1, FILTER_LEN - 1), pack(f) \o <<0>>,
     [pack(f) EXCEPT ![FILTER_LEN] = 28]}

Unpack ==
    \E b \in UnpackInputs(flt) :
        /\ fbytes' = b
        /\ funp' = unpack(b)
        /\ FilterOp("unpack", 0)
        /\ UNCHANGED flt

NextF ==
    \/ EnableEvent
    \/ DisableEvent
    \/ EnableType
    \/ DisableType
    \/ SetOpcode
    \/ Pack
    \/ Unpack

SpecF == InitF /\ [][NextF]_vars

\* the writer's side alone, against the regular transport
NextK ==
    \/ SendCommand
    \/ PollWrite
    \/ Write
    \/ Flush
    \/ DropWriter

SpecK == InitK /\ [][NextK]_vars

-----------------------------------------------------------------------------
(* Properties *)

\* the last step belonged to a poll of the reader, resp. of the writer
ReaderOp == last.op \in {"poll_next", "read"}
WriterOp == last.op \in {"poll", "write", "flush"}

\* the last transport call was a read that transferred 0 bytes
ZeroRead == last.op = "read" /\ last.r = "Ok" /\ last.n = 0

\* the bytes delivered since the reader was fresh are one whole frame
WholeFrame ==
    /\ Len(got) >= EVENT_HEADER_LEN
    /\ IsEventCode(got[1])
    /\ Len(got) = EVENT_HEADER_LEN + got[2]

\* C1: the first frame a fresh (new or cleared) reader returns has the first
\* delivered byte as its event code and the bytes after the two header bytes
\* as its payload, and exactly 2 + L bytes were taken from the transport,
\* however the transport cut them into reads; and as soon as the last byte
\* of a well-formed frame is delivered, that poll returns the frame.
C1_FrameWhateverTheChunks ==
    /\ (ret.kind = "Frame" /\ nframes = 1) =>
          /\ WholeFrame
          /\ ret.code = got[1]
          /\ ret.payload = SubSeq(got, EVENT_HEADER_LEN + 1, Len(got))
    /\ (last.op = "read" /\ last.r = "Ok" /\ last.n > 0 /\ WholeFrame) =>
          (ret.kind = "Frame" /\ nframes = 1)

\* a two-byte payload that arrived in two reads
C1_Witness ==
    /\ ret.kind = "Frame" /\ nframes = 1
    /\ ret.payload = <<1, 2>>
    /\ last.op = "read" /\ last.n = 1

\* C2: when poll_next has returned a frame the reader is back in S0: pos = 0
\* and no payload buffer is held, so that the next frame starts with a read
\* of a new header.
C2_ResetAfterFrame ==
    (ret.kind = "Frame") => (pos = 0 /\ parameters = None)

\* f lets through exactly the types Command and Event and the events
\* CommandStatus and CommandComplete, and names opcode o
ExactCommandFilter(f, o) ==
    /\ \A t \in 0 .. 31 : get_type(f, t) <=> t \in {PT_Command, PT_Event}
    /\ \A e \in 0 .. 63 : get_event(f, e) <=> e \in {CommandStatus, CommandComplete}
    /\ f.opcode = o

\* C3: a send_command whose command packs calls set_filter; when it returns
\* the writer, the installed filter is exactly the command's filter and the
\* transport has seen no write yet; and whenever the transport has seen a
\* write, the installed filter is exactly the filter of the command written.
C3_FilterBeforeBytes ==
    /\ (last.op = "send_command" /\ Unwrap(last.cmd).packs) => last.r # "-"
    /\ (last.op = "send_command" /\ ret.kind = "Ok") =>
          /\ filter # None
          /\ ExactCommandFilter(Unwrap(filter), Unwrap(last.cmd).opcode)
          /\ wop = Some(Unwrap(last.cmd).opcode)
          /\ nwrites = 0 /\ sent = <<>>
    /\ (nwrites > 0) =>
          (filter # None /\ ExactCommandFilter(Unwrap(filter), Unwrap(wop)))

\* bytes of a second command are on the transport under its own filter
C3_Witness ==
    /\ Len(sent) > 1
    /\ filter = Some(CommandFilter(8202))
    /\ wop = Some(8202)

Ceil(n, k) == (n + k - 1) \div k
Min(a, b) == IF a < b THEN a ELSE b

\* C4: against a transport that takes min(k, remaining) bytes per write and
\* never fails, after i writes exactly min(i * k, n) bytes are out, no flush
\* is tried while pos < len, and the writer ends with success after exactly
\* ceil(n / k) writes and exactly one flush.
C4_WritesThenOneFlush ==
    w # None =>
        LET wr == Unwrap(w) IN
        /\ wr.pos = Min(nwrites * tk, wr.len)
        /\ nwrites <= Ceil(wr.len, tk)
        /\ (nflush > 0) => (wr.pos = wr.len /\ nflush = 1)
        /\ (wpc = "flush") => (nwrites = Ceil(wr.len, tk) /\ nflush = 0)
        /\ (wpc = "done") =>
              /\ ret.kind = "Ok"
              /\ nwrites = Ceil(wr.len, tk)
              /\ nflush = 1

\* ten bytes, three per write: four writes and one flush
C4_Witness ==
    /\ wpc = "done" /\ ret.kind = "Ok"
    /\ Unwrap(w).len = 10 /\ tk = 3
    /\ nwrites = 4 /\ nflush = 1
    /\ Len(sent) = 10

\* C5: a failed write ends the poll with IOError and no flush; a flush is
\* tried only when pos = len, and as soon as pos = len the poll goes on to
\* the flush; a failed flush gives IOError, a successful one Ok(()); and the
\* writer returns success only with pos = len and a flush that succeeded.
C5_WriterErrors ==
    /\ (last.op = "write" /\ last.r = "Err") =>
          (ret.kind = "IOError" /\ wpc = "done" /\ nflush = 0)
    /\ (nflush > 0 \/ wpc = "flush") => Unwrap(w).pos = Unwrap(w).len
    /\ (wpc = "write") => Unwrap(w).pos < Unwrap(w).len
    /\ (WriterOp /\ ret.kind = "Running") => wpc \in {"write", "flush"}
    /\ (last.op = "flush" /\ last.r = "Err") => (ret.kind = "IOError" /\ wpc = "done")
    /\ (last.op = "flush" /\ last.r = "Ok") => (ret.kind = "Ok" /\ wpc = "done")
    /\ (WriterOp /\ ret.kind = "Ok") =>
          (Unwrap(w).pos = Unwrap(w).len /\ flushed /\ last.op = "flush")

\* the third write fails after two short ones
C5_Witness ==
    /\ last.op = "write" /\ last.r = "Err"
    /\ nwrites = 3 /\ Len(sent) = 2
    /\ ret.kind = "IOError"

\* C6: a read that transfers 0 bytes, in the header or in the payload, ends
\* the poll with "no further frames": no error, no frame.
C6_ZeroReadEndsStream ==
    ZeroRead => (ret.kind = "End" /\ rpc = "idle")

\* the stream ends in the middle of a payload
C6_Witness ==
    /\ ZeroRead
    /\ pos > EVENT_HEADER_LEN
    /\ ret.kind = "End"

\* C7: BadOpcode is returned only with both header bytes read, byte 0 no
\* event code, no payload buffer made and no byte read beyond the header;
\* a poll that finds the header complete with such a byte returns BadOpcode;
\* and no frame carries an unrecognized code.
C7_BadOpcode ==
    /\ (ret.kind = "BadOpcode") =>
          /\ pos = EVENT_HEADER_LEN
          /\ ~IsEventCode(header_buf[1])
          /\ parameters = None
          /\ Len(got) = EVENT_HEADER_LEN
    /\ (ReaderOp /\ pos >= EVENT_HEADER_LEN /\ ~IsEventCode(header_buf[1])) =>
          (ret.kind = "BadOpcode" /\ rpc = "idle")
    /\ (ret.kind = "Frame") => IsEventCode(ret.code)
    /\ (rpc = "pay") => IsEventCode(header_buf[1])

\* an unrecognized code in front of a length of 2
C7_Witness ==
    /\ ret.kind = "BadOpcode"
    /\ header_buf = <<0, 2>>
    /\ last.op = "read"

\* what a send_command that touches nothing leaves alone
Untouched ==
    UNCHANGED <<pos, header_buf, parameters, rpc, got, nframes, w, wpc, wop,
                filter, sent, nwrites, nflush, flushed>>

\* C8: a send_command whose command does not pack returns CommandError
\* without calling set_filter, and changes neither the reader (pos, header
\* buffer, payload buffer) nor the transport (filter, bytes written, writes,
\* flushes), and makes no writer.
C8_PackFailureTouchesNothing ==
    /\ [](last.op = "send_command" /\ ~Unwrap(last.cmd).packs =>
            ret.kind = "CommandError" /\ last.r = "-")
    /\ [][(last'.op = "send_command" /\ ~Unwrap(last'.cmd).packs) => Untouched]_vars

\* the command fails to pack while a frame is half read and a filter is set
C8_Witness ==
    /\ last.op = "send_command" /\ ~Unwrap(last.cmd).packs
    /\ ret.kind = "CommandError"
    /\ pos = 3 /\ parameters # None
    /\ filter # None

\* C9: a send_command whose set_filter fails returns the transport's error
\* as it is and makes no writer; and the transport has bytes of a command
\* only while the installed filter is the one set for that command's opcode.
C9_NoBytesWithoutFilter ==
    /\ (last.op = "send_command" /\ last.r \in FilterErrors) =>
          /\ ret.kind = last.r
          /\ w = None /\ wpc = "none"
          /\ nwrites = 0 /\ sent = <<>>
    /\ (w # None \/ nwrites > 0 \/ sent # <<>>) =>
          /\ filter # None
          /\ Some(Unwrap(filter).opcode) = wop

\* set_filter fails for a command while the filter of another one is installed
C9_Witness ==
    /\ last.op = "send_command" /\ last.r = "HCIError"
    /\ ret.kind = "HCIError"
    /\ filter # None
    /\ Unwrap(filter).opcode # Unwrap(last.cmd).opcode

\* C10: the payload of every frame returned is as long as the second byte
\* of the header held, which is the second byte the transport delivered
\* since the reader was last fresh.
C10_PayloadLength ==
    (ret.kind = "Frame") =>
        /\ Len(got) >= EVENT_HEADER_LEN
        /\ Len(ret.payload) = got[2]
        /\ Len(ret.payload) = header_buf[2]

\* a frame read after a command was sent and the reader cleared by it
C10_Witness ==
    /\ ret.kind = "Frame"
    /\ Len(ret.payload) = 2
    /\ filter # None

\* C11: when poll_next has returned "no further frames" (a read of 0 bytes)
\* or IOError (a failed read), the frame in progress is given up: the reader
\* is in S0, with pos = 0 and no payload buffer.
C11_AbandonOnEndOrError ==
    (ReaderOp /\ ret.kind \in {"End", "IOError"}) =>
        (pos = 0 /\ parameters = None)

\* bit i (0..31) of the u32 laid out little-endian in bytes[off+1 .. off+4]
BitAt(bytes, off, i) == (i % 8) \in BitsOfByte(bytes[off + (i \div 8) + 1])

\* bytes is the 14-byte layout of f: type_mask, event word 0, event word 1,
\* each little-endian in four bytes, then the opcode little-endian in two
Layout(bytes, f) ==
    /\ Len(bytes) = FILTER_LEN
    /\ \A i \in 0 .. 31 :
          /\ BitAt(bytes, 0, i) <=> i \in f.type_mask
          /\ BitAt(bytes, 4, i) <=> i \in f.event_mask[1]
          /\ BitAt(bytes, 8, i) <=> i \in f.event_mask[2]
    /\ bytes[13] + 256 * bytes[14] = f.opcode
    /\ \A j \in 1 .. FILTER_LEN : bytes[j] \in 0 .. 255

\* C12: unpack of the packed Filter gives the Filter back; pack returns the
\* 14-byte little-endian layout; unpack of a byte string that is not 14 bytes
\* long, or whose opcode bytes Opcode::unpack rejects, gives no value.
C12_PackUnpack ==
    /\ unpack(pack(flt)) = Some(flt)
    /\ (last.op = "pack") => Layout(fbytes, flt)
    /\ (last.op = "unpack") =>
          /\ (Len(fbytes) # FILTER_LEN) => funp = None
          /\ (Len(fbytes) = FILTER_LEN
                /\ Opcode_unpack(SubSeq(fbytes, 13, 14)) = None) => funp = None
          /\ Layout(fbytes, flt) => funp = Some(flt)

\* a Filter with the top bit of every mask set comes back from its bytes
C12_Witness ==
    /\ last.op = "unpack"
    /\ funp = Some(flt)
    /\ 31 \in flt.type_mask
    /\ get_event(flt, 31) /\ get_event(flt, 63) /\ ~get_event(flt, 32)
    /\ flt.opcode = 3075

\* every event bit but that of code n is the same in f and g
OtherEventsSame(f, g, n) ==
    \A k \in 1 .. 2 : \A i \in 0 .. 31 :
        (32 * (k - 1) + i # n) => (i \in f.event_mask[k] <=> i \in g.event_mask[k])

\* C13: after enable_event(E) get_event(E) is true, after disable_event(E)
\* it is false, and either leaves every other event bit of both words, the
\* type mask and the opcode as they were.
C13_EventBits ==
    [][/\ (last'.op = "enable_event") => get_event(flt', last'.n)
       /\ (last'.op = "disable_event") => ~get_event(flt', last'.n)
       /\ (last'.op \in {"enable_event", "disable_event"}) =>
             /\ OtherEventsSame(flt, flt', last'.n)
             /\ flt'.type_mask = flt.type_mask
             /\ flt'.opcode = flt.opcode]_vars

\* event 40 is off again while events 0, 32 and 63 stay on
C13_Witness ==
    /\ last.op = "disable_event" /\ last.n = 40
    /\ ~get_event(flt, 40)
    /\ get_event(flt, 0) /\ get_event(flt, 32) /\ get_event(flt, 63)

\* the reader is in S0
InS0 == pos = 0 /\ header_buf = <<0, 0>> /\ parameters = None

\* C14: after clear the reader is in S0, whatever it held; a send_command
\* that returns the writer has cleared the reader, which stays in S0 as long
\* as the writer lives; and a read_event polled on a reader in S0 starts by
\* reading the header.
C14_ClearGivesS0 ==
    /\ (last.op = "clear") => InS0
    /\ (last.op = "send_command" /\ ret.kind = "Ok") =>
          (InS0 /\ w # None /\ Unwrap(w).pos = 0)
    /\ (w # None) => InS0
    /\ (last.op = "poll_next" /\ pos = 0) =>
          (rpc = "hdr" /\ ret.kind = "Running" /\ InS0)

\* the reader is in S0 behind a writer that has begun to write
C14_Witness ==
    /\ w # None /\ Len(sent) > 0
    /\ InS0

\* C15: the writer keeps 0 <= pos <= len, the transport has accepted exactly
\* data[0..pos], in order, and a write is offered exactly data[pos..len];
\* when the writer returns success the transport has the whole buffer.
C15_WriterPrefix ==
    (w # None) =>
        LET wr == Unwrap(w) IN
        /\ 0 <= wr.pos /\ wr.pos <= wr.len
        /\ wr.len = Len(wr.data)
        /\ sent = SubSeq(wr.data, 1, wr.pos)
        /\ buf(wr) = SubSeq(wr.data, Len(sent) + 1, wr.len)
        /\ (last.op = "write" /\ last.r = "Ok") => last.n <= wr.pos
        /\ (WriterOp /\ ret.kind = "Ok") => sent = wr.data

\* a buffer that went out in three pieces
C15_Witness ==
    /\ WriterOp /\ ret.kind = "Ok"
    /\ nwrites = 3
    /\ Len(sent) = 5
    /\ sent = Unwrap(w).data

\* C16: a read, write or flush that is not ready makes the poll return
\* Pending with the reader's and the writer's fields and the bytes taken or
\* given so far as they were; the poll that follows comes back to the same
\* transport call: the header read if pos < 2, else the payload read, and
\* the write or the flush that was not ready.
C16_PendingResumes ==
    [][/\ (last'.r = "Pending") =>
             /\ ret'.kind = "Pending"
             /\ UNCHANGED <<pos, header_buf, parameters, got, nframes, w, sent>>
             /\ (last'.op = "read") => (rpc' = "idle" /\ rpc \in {"hdr", "pay"})
             /\ (last'.op \in {"write", "flush"}) => wpc' = "idle"
       /\ (ret.kind = "Pending" /\ last.op = "read" /\ last'.op = "poll_next") =>
             /\ UNCHANGED <<pos, header_buf, parameters, got, nframes>>
             /\ ret'.kind = "Running"
             /\ rpc' = IF pos < EVENT_HEADER_LEN THEN "hdr" ELSE "pay"
       /\ (ret.kind = "Pending" /\ last.op \in {"write", "flush"}
             /\ last'.op = "poll") =>
             /\ UNCHANGED <<w, sent>>
             /\ ret'.kind = "Running"
             /\ wpc' = last.op]_vars

\* the transport is not ready in the middle of a payload
C16_Witness ==
    /\ last.op = "read" /\ last.r = "Pending"
    /\ ret.kind = "Pending"
    /\ pos = 3 /\ parameters = Some(<<2, 0>>)

\* C17: a write that takes 0 bytes while data remains leaves pos and the
\* bytes out as they were and the poll at the write of the same slice; and
\* against a transport that never fails and in the end takes bytes and
\* flushes, every writer ends with success.
C17_ZeroWriteRetried ==
    /\ [][(last'.op = "write" /\ last'.r = "Ok" /\ last'.n = 0) =>
             /\ w' = w /\ sent' = sent
             /\ Unwrap(w').pos < Unwrap(w').len
             /\ wpc' = "write" /\ ret'.kind = "Running"]_vars
    /\ (w # None) ~> (wpc = "done" /\ ret.kind = "Ok")

\* a write of 0 bytes after a part of the buffer went out
C17_Witness ==
    /\ last.op = "write" /\ last.r = "Ok" /\ last.n = 0
    /\ Unwrap(w).pos > 0
    /\ wpc = "write"

\* the reader holds a complete header whose first byte is no event code
BadHeader == pos >= EVENT_HEADER_LEN /\ ~IsEventCode(header_buf[1])

\* C18: the reader that returned BadOpcode keeps pos = 2 and the rejected
\* header; while it does, every poll of read_event returns BadOpcode at once,
\* with no transport read and nothing changed; the rejected header goes away
\* only by clear or by a send_command that reaches send_bytes, and the poll
\* after that starts at the header read with pos = 0 and no byte taken yet.
C18_NoResync ==
    /\ [](ret.kind = "BadOpcode" => (BadHeader /\ pos = EVENT_HEADER_LEN))
    /\ [][(BadHeader /\ last'.op = "poll_next") =>
             /\ ret'.kind = "BadOpcode" /\ rpc' = "idle"
             /\ UNCHANGED <<pos, header_buf, parameters, got>>]_vars
    /\ [][(BadHeader /\ ~BadHeader') =>
             /\ \/ last'.op = "clear"
                \/ last'.op = "send_command" /\ ret'.kind = "Ok"
             /\ pos' = 0 /\ got' = <<>>]_vars
    /\ [][(pos = 0 /\ last'.op = "poll_next") =>
             (rpc' = "hdr" /\ pos' = 0 /\ got' = got)]_vars

\* read_event is polled again on the rejected header
C18_Witness ==
    /\ last.op = "poll_next"
    /\ ret.kind = "BadOpcode"
    /\ header_buf = <<0, 1>>

\* C19: a send_command that returns the writer installs exactly the filter
\* of its command, whatever filter was installed before; every other step,
\* the send_command that fails in packing or in set_filter included, leaves
\* the installed filter as it was.
C19_LastCommandsFilter ==
    [][/\ (last'.op = "send_command" /\ ret'.kind = "Ok") =>
             /\ filter' # None
             /\ ExactCommandFilter(Unwrap(filter'), Unwrap(last'.cmd).opcode)
       /\ ~(last'.op = "send_command" /\ ret'.kind = "Ok") =>
             filter' = filter]_vars

\* a second command, whose set_filter failed, under the filter of the first
C19_Witness ==
    /\ last.op = "send_command"
    /\ last.r \in FilterErrors
    /\ Unwrap(last.cmd).opcode = 8202
    /\ filter = Some(CommandFilter(3075))

\* C20: every read is given a slice of at least one byte, in the header and
\* in the payload; the read that completes a header with a recognized code
\* and length 0 returns the frame with the empty payload in the same poll;
\* and "no further frames" is returned only after a read of 0 bytes.
C20_NoEmptyRead ==
    /\ (rpc = "hdr") => Len(header_buf) - pos > 0
    /\ (rpc = "pay") =>
          /\ parameters # None
          /\ Len(Unwrap(parameters)) - (pos - EVENT_HEADER_LEN) > 0
    /\ (last.op = "read" /\ last.r = "Ok" /\ last.n > 0
           /\ Len(got) = EVENT_HEADER_LEN /\ IsEventCode(got[1]) /\ got[2] = 0) =>
          (ret = Frame(got[1], <<>>) /\ rpc = "idle")
    /\ (ret.kind = "End") => ZeroRead

\* the header <<1, 0>> arrives in two reads and the empty frame is returned
C20_Witness ==
    /\ ret = Frame(1, <<>>)
    /\ last.op = "read" /\ last.n = 1
    /\ got = <<1, 0>>

====
